---- MODULE Spec2Model ----
(***************************************************************************)
(* Model of src/agents.py (class ResearchCrew): the three public engine    *)
(* operations run_fact_check, generate_content, generate_factual_content   *)
(* and the helper _extract_json, as one state machine that steps through   *)
(* the statements of the running operation.                                *)
(*                                                                         *)
(* Text is a sequence of tokens.  A token is a brace, a prose character,   *)
(* a blank, or one whole JSON member ("key": value, separator included).   *)
(* Python numbers are records [int, t, e]: the value is (t / 10) * 10^e,   *)
(* int tells an int from a float.  Numbers with e > 0 carry a mantissa     *)
(* 10 <= |t| <= 99, so a larger exponent is a larger magnitude.            *)
(***************************************************************************)
EXTENDS Integers, Sequences, FiniteSets, TLC

\* ------------------------------------------------------------ bounds

\* longest prose wrapped before a reply's JSON object
MaxPre == 1
\* longest prose wrapped after a reply's JSON object
MaxPost == 2
\* how often a returned verification record is fed back as the next reply
MaxReval == 1

\* ----------------------------------------------------------- numbers

\* sys.float_info.max_10_exp: the largest decimal exponent of a Python float
DBL_MAX_10_EXP == 308

PyInt(k) == [int |-> TRUE, t |-> 10 * k, e |-> 0]
PyFloat(tenths) == [int |-> FALSE, t |-> tenths, e |-> 0]
PyBigInt(exp) == [int |-> TRUE, t |-> 10, e |-> exp]
PyBigFloat(exp) == [int |-> FALSE, t |-> 10, e |-> exp]

\* a < b on Python numbers (int and float compare by value)
Less(a, b) ==
    IF a.e = b.e THEN a.t < b.t
    ELSE IF a.e > b.e THEN a.t < 0
    ELSE b.t > 0

NumEq(a, b) == ~Less(a, b) /\ ~Less(b, a)

Abs(i) == IF i < 0 THEN -i ELSE i

\* float(x) of an int raises OverflowError above DBL_MAX = 1.797...e308
FloatOverflows(n) ==
    /\ n.int
    /\ \/ n.e > DBL_MAX_10_EXP
       \/ n.e = DBL_MAX_10_EXP /\ Abs(n.t) >= 18

\* float(x) of a number that does not overflow
ToFloat(n) == [n EXCEPT !.int = FALSE]

\* min(100, score): the first argument unless the second is strictly smaller
Min100(score) == IF Less(score, PyInt(100)) THEN score ELSE PyInt(100)

\* max(0, m): the first argument unless the second is strictly greater
Max0(m) == IF Less(PyInt(0), m) THEN m ELSE PyInt(0)

\* score = max(0, min(100, score))
Clamp(score) == Max0(Min100(score))

\* str(k) of a natural number, one token per digit
RECURSIVE Digits(_)
Digits(k) ==
    IF k < 10 THEN <<ToString(k)>>
    ELSE Digits(k \div 10) \o <<ToString(k % 10)>>

\* f"{score}": str of an int is its digits; repr of a float has a fraction
\* ("42.5", "1.0") or, from 1e16 on, an exponent ("1e+308")
FormatNum(n) ==
    LET sign == IF n.t < 0 THEN <<"-">> ELSE <<>>
        a == Abs(n.t)
    IN  IF n.e > 0
        THEN IF n.int
             THEN sign \o Digits(a \div 10) \o [i \in 1..n.e |-> "0"]
             ELSE sign \o Digits(a \div 10)
                  \o (IF a % 10 = 0 THEN <<>> ELSE <<".">> \o Digits(a % 10))
                  \o <<"e", "+">> \o Digits(n.e)
        ELSE IF n.int
             THEN sign \o Digits(a \div 10)
             ELSE sign \o Digits(a \div 10) \o <<".">> \o Digits(a % 10)

\* ------------------------------------------------------- JSON values

Null == [ty |-> "null", s |-> <<>>, n |-> PyInt(0)]
Str(s) == [ty |-> "str", s |-> s, n |-> PyInt(0)]
Num(n) == [ty |-> "num", s |-> <<>>, n |-> n]
List == [ty |-> "list", s |-> <<>>, n |-> PyInt(0)]

\* ------------------------------------------------------------ tokens

LB == [c |-> "{", key |-> "", v |-> Null]
RB == [c |-> "}", key |-> "", v |-> Null]
X == [c |-> "x", key |-> "", v |-> Null]
SP == [c |-> " ", key |-> "", v |-> Null]
M(key, v) == [c |-> "m", key |-> key, v |-> v]

\* ------------------------------------------------------- str methods

\* text.find(ch): the 0-based index of the first ch, -1 when there is none
Find(text, ch) ==
    LET hits == {i \in 1..Len(text) : text[i].c = ch}
    IN  IF hits = {} THEN -1
        ELSE (CHOOSE i \in hits : \A j \in hits : i <= j) - 1

\* text.rfind(ch): the 0-based index of the last ch, -1 when there is none
RFind(text, ch) ==
    LET hits == {i \in 1..Len(text) : text[i].c = ch}
    IN  IF hits = {} THEN -1
        ELSE (CHOOSE i \in hits : \A j \in hits : i >= j) - 1

\* a slice bound as Python normalises it: negative counts from the end
SliceBound(i, n) ==
    IF i < 0 THEN (IF i + n < 0 THEN 0 ELSE i + n)
    ELSE IF i > n THEN n ELSE i

\* text[a:b]: empty when the normalised b is not after the normalised a
Slice(text, a, b) ==
    LET lo == SliceBound(a, Len(text))
        hi == SliceBound(b, Len(text))
    IN  IF hi <= lo THEN <<>> ELSE SubSeq(text, lo + 1, hi)

\* text.strip(): without its leading and trailing blanks
Strip(text) ==
    LET solid == {i \in 1..Len(text) : text[i].c # " "}
    IN  IF solid = {} THEN <<>>
        ELSE SubSeq(text,
                    CHOOSE i \in solid : \A j \in solid : i <= j,
                    CHOOSE i \in solid : \A j \in solid : i >= j)

\* len(content.split()): the number of maximal runs of non-blank characters
SplitCount(s) ==
    Cardinality({i \in 1..Len(s) : s[i] # " " /\ (i = 1 \/ s[i - 1] = " ")})

\* -------------------------------------------------------------- json

\* a Python dict or None: d is the dict (a function on its keys)
NoDict == [ok |-> FALSE, d |-> <<>>]
Dict(d) == [ok |-> TRUE, d |-> d]

\* whether json.loads accepts s: one object, "{" members "}"
IsJsonObject(s) ==
    /\ Len(s) >= 2
    /\ s[1].c = "{"
    /\ s[Len(s)].c = "}"
    /\ \A i \in 2..(Len(s) - 1) : s[i].c = "m"

\* the dict json.loads builds from an accepted s: a repeated key keeps its
\* last value
JsonDict(s) ==
    LET at == 2..(Len(s) - 1)
        keys == {s[i].key : i \in at}
        last(k) == CHOOSE i \in at :
                       s[i].key = k /\ \A j \in at : s[j].key = k => j <= i
    IN  [k \in keys |-> s[last(k)].v]

Has(d, k) == k \in DOMAIN d

\* d.get(k, default)
Get(d, k, default) == IF Has(d, k) THEN d[k] ELSE default

\* json.dumps of a verification record {"score": .., "details": ..}
Serialize(r) ==
    <<LB, M("score", Num(r.score)), M("details", Str(r.details)), RB>>

\* float(s) of a str: defined on digit strings here, ValueError otherwise
IsDigit(ch) == ch \in {"0", "1", "2", "3", "4", "5", "6", "7", "8", "9"}

DigitValue(ch) ==
    CASE ch = "0" -> 0 [] ch = "1" -> 1 [] ch = "2" -> 2 [] ch = "3" -> 3
      [] ch = "4" -> 4 [] ch = "5" -> 5 [] ch = "6" -> 6 [] ch = "7" -> 7
      [] ch = "8" -> 8 [] OTHER -> 9

RECURSIVE DigitsValue(_)
DigitsValue(s) ==
    IF s = <<>> THEN 0
    ELSE 10 * DigitsValue(SubSeq(s, 1, Len(s) - 1)) + DigitValue(s[Len(s)])

IsNumericStr(s) == s # <<>> /\ \A i \in 1..Len(s) : IsDigit(s[i])

\* ---------------------------------------------------------- exceptions

NoExc == [type |-> "", msg |-> ""]
Exc(type, msg) == [type |-> type, msg |-> msg]

\* issubclass(type, cls) among the exception classes that occur
IsSubclass(type, cls) ==
    \/ type = cls
    \/ cls = "Exception"
    \/ cls = "ValueError" /\ type = "JSONDecodeError"
    \/ cls = "ArithmeticError" /\ type = "OverflowError"
    \/ cls = "LookupError" /\ type = "KeyError"

\* the result of float(v), as [exc, n]
Float(v) ==
    CASE v.ty = "num" ->
           IF FloatOverflows(v.n)
           THEN [exc |-> Exc("OverflowError", "int too large to convert to float"),
                 n |-> PyInt(0)]
           ELSE [exc |-> NoExc, n |-> ToFloat(v.n)]
      [] v.ty = "str" ->
           IF IsNumericStr(v.s)
           THEN [exc |-> NoExc, n |-> PyFloat(10 * DigitsValue(v.s))]
           ELSE [exc |-> Exc("ValueError", "could not convert string to float"),
                 n |-> PyInt(0)]
      [] OTHER ->
           [exc |-> Exc("TypeError", "float() argument must be a string or a real number"),
            n |-> PyInt(0)]

\* d[k], as [exc, v]: KeyError when k is not a key of d
Subscript(d, k) ==
    IF Has(d, k) THEN [exc |-> NoExc, v |-> d[k]]
    ELSE [exc |-> Exc("KeyError", k), v |-> Null]

\* ------------------------------------------------------------ inputs

Ops == {"run_fact_check", "generate_content", "generate_factual_content"}

\* the topic (or, for run_fact_check, the content) the caller passes
Topics == {"tides", "solar"}

\* "score" values a reply may carry
ScoreVals ==
    { Num(PyInt(-5)), Num(PyInt(0)), Num(PyFloat(425)), Num(PyInt(150)),
      Num(PyFloat(1000)),
      Num(PyBigInt(DBL_MAX_10_EXP)), Num(PyBigInt(DBL_MAX_10_EXP + 1)),
      Num(PyBigFloat(DBL_MAX_10_EXP + 1)),
      Str(<<"4", "2">>), Str(<<"a">>), Null }

\* "details" values: plain, and already prefixed with another score
DetailsVals ==
    { Str(<<"a">>), Str(<<"Veracity Score: ", "7", " - ", "a">>) }

\* "content" values: "a a a", " aa  a", "", and a number
ContentVals ==
    { Str(<<"a", " ", "a", " ", "a">>), Str(<<" ", "a", "a", " ", " ", "a">>),
      Str(<<>>), Num(PyInt(7)) }

WordCountVals == { Num(PyInt(7)) }

Opt(key, vals) == {<<>>} \cup {<<M(key, v)>> : v \in vals}

Obj(members) == <<LB>> \o members \o <<RB>>

\* JSON objects shaped like a verification reply, a content reply, or neither
Bodies ==
    {Obj(a \o b) : a \in Opt("score", ScoreVals), b \in Opt("details", DetailsVals)}
    \cup {Obj(a \o b) : a \in Opt("content", ContentVals),
                       b \in Opt("word_count", WordCountVals)}
    \cup {Obj(<<M("foo", Str(<<"b", "a", "r">>))>>)}

\* no object at all, or one that serves every operation
PlainBodies ==
    { <<>>,
      Obj(<<M("score", Num(PyFloat(425))), M("details", Str(<<"a">>)),
            M("content", Str(<<"a", " ", "a">>))>>) }

RECURSIVE Prose(_)
Prose(n) ==
    IF n = 0 THEN {<<>>}
    ELSE Prose(n - 1)
         \cup {p \o <<ch>> : p \in Prose(n - 1), ch \in {LB, RB, X, SP}}

\* the raw text a model call may return
Replies ==
    {w[1] \o b \o w[2] : b \in Bodies, w \in {<< <<>>, <<>> >>, << <<SP, X>>, <<X, SP>> >>}}
    \cup {pre \o b \o post :
              pre \in Prose(MaxPre), post \in Prose(MaxPost), b \in PlainBodies}

\* what crew.kickoff() (or building the agents and tasks) may raise
KickoffErrors == {Exc("RuntimeError", "model call failed")}

\* ------------------------------------------------------------- state

VARIABLES
    op,             \* the public operation running (or last run)
    topic,          \* its argument
    stage,          \* Idle, Called, Fetched, Located, Parsed, Validated, Done, Failed
    req,            \* the extraction request of this call: 0 none yet, 1, 2
    text,           \* result_str / the text handed to _extract_json
    start_idx,
    end_idx,
    json_str,
    parsed_result,  \* what json.loads returned, NoDict before
    content_json,   \* generate_factual_content: the writer's object
    score,          \* run_fact_check: the clamped score
    result,         \* the record the operation returned
    e,              \* the exception the operation caught, NoExc when none
    raised,         \* an exception left the operation
    logged,         \* the last logger.error line
    parse_calls,    \* json.loads calls of this extraction request
    prev,           \* the verification record fed back as this call's reply
    revals          \* how many records were fed back in a row

vars ==
    <<op, topic, stage, req, text, start_idx, end_idx, json_str, parsed_result,
      content_json, score, result, e, raised, logged, parse_calls, prev, revals>>

NoResult == [pending |-> TRUE]
NoPrev == [ok |-> FALSE, score |-> PyInt(0), details |-> <<>>]

\* datetime.now().isoformat()
Now == "isoformat"

Init ==
    /\ op = "run_fact_check"
    /\ topic = "tides"
    /\ stage = "Idle"
    /\ req = 0
    /\ text = <<>>
    /\ start_idx = -1
    /\ end_idx = -1
    /\ json_str = <<>>
    /\ parsed_result = NoDict
    /\ content_json = NoDict
    /\ score = PyInt(0)
    /\ result = NoResult
    /\ e = NoExc
    /\ raised = FALSE
    /\ logged = <<>>
    /\ parse_calls = 0
    /\ prev = NoPrev
    /\ revals = 0

\* ----------------------------------------------------- result records

StartsWith(s, p) == Len(s) >= Len(p) /\ SubSeq(s, 1, Len(p)) = p

VerificationRecordKeepPrefix(sc, details) ==
    [score |-> sc,
     details |-> IF StartsWith(details, <<"Veracity Score: ">>) THEN details
                 ELSE <<"Veracity Score: ">> \o FormatNum(sc) \o <<" - ">> \o details]

\* run_fact_check, lines 266-269
VerificationRecord(sc, details) ==
    [score |-> sc,
     details |-> <<"Veracity Score: ">> \o FormatNum(sc) \o <<" - ">> \o details]

\* run_fact_check, line 248
NoJsonRecord ==
    [score |-> PyInt(0), details |-> <<"Error: Could not extract JSON from response">>]

\* run_fact_check, line 275
ParseErrorRecord(ex) ==
    [score |-> PyInt(0), details |-> <<"Error: JSON parsing failed - ", ex.msg>>]

\* run_fact_check, line 279
FactCheckErrorRecord(ex) ==
    [score |-> PyInt(0), details |-> <<"Error during fact check: ", ex.msg>>]

\* generate_content, lines 332-339
ContentRecord(content, tp) ==
    [content |-> content,
     metadata |-> [topic |-> tp, timestamp |-> Now,
                   word_count |-> Num(PyInt(SplitCount(content.s)))]]

\* generate_content, lines 343-350
ContentErrorRecord(ex, tp) ==
    [content |-> Str(<<"Error generating content: ", ex.msg>>),
     metadata |-> [topic |-> tp, timestamp |-> Now, error |-> ex.msg]]

\* generate_factual_content, lines 160-174
FactualRecord(cj, vj, tp) ==
    [status |-> "COMPLETE",
     content |-> cj["content"],
     structure |-> Get(cj, "structure", Str(<<>>)),
     word_count |-> Get(cj, "word_count", Num(PyInt(0))),
     verification |-> [score |-> Get(vj, "score", Num(PyInt(0))),
                       improvements |-> Get(vj, "improvements", Str(<<>>)),
                       citations |-> Get(vj, "citations", List)],
     metadata |-> [topic |-> tp, timestamp |-> Now]]

\* generate_factual_content, lines 178-185
FactualErrorRecord(ex, tp) ==
    [status |-> "FAILED", error |-> ex.msg,
     metadata |-> [topic |-> tp, timestamp |-> Now]]

\* ------------------------------------------------------ except clauses

\* except json.JSONDecodeError (line 271), around lines 255-269
InnerCatches(type) == IsSubclass(type, "JSONDecodeError")

OuterCatchesValueError(type) == IsSubclass(type, "ValueError")

\* except Exception (lines 176, 277, 341), around each whole operation
OuterCatches(type) == IsSubclass(type, "Exception")

\* ex is raised in operation o, inside the inner try of run_fact_check when
\* `inner`: the innermost clause that catches it returns its record
Raise(o, tp, ex, inner) ==
    /\ stage' = "Failed"
    /\ e' = ex
    /\ IF o = "run_fact_check" /\ inner /\ InnerCatches(ex.type)
       THEN /\ result' = ParseErrorRecord(ex)
            /\ logged' = <<"JSON parsing error: ", ex.msg>>
            /\ raised' = FALSE
       ELSE IF OuterCatches(ex.type)
       THEN /\ raised' = FALSE
            /\ CASE o = "run_fact_check" ->
                      /\ result' = FactCheckErrorRecord(ex)
                      /\ logged' = <<"Fact check error: ", ex.msg>>
                 [] o = "generate_content" ->
                      /\ result' = ContentErrorRecord(ex, tp)
                      /\ logged' = <<"Content generation error: ", ex.msg>>
                 [] OTHER ->
                      /\ result' = FactualErrorRecord(ex, tp)
                      /\ logged' = <<"Factual content generation error: ", ex.msg>>
       ELSE /\ raised' = TRUE
            /\ result' = NoResult
            /\ logged' = logged

\* ------------------------------------------------------------ actions

\* the caller starts operation o: its locals are fresh
Enter(o, tp) ==
    /\ op' = o
    /\ topic' = tp
    /\ stage' = "Called"
    /\ req' = 0
    /\ text' = <<>>
    /\ start_idx' = -1
    /\ end_idx' = -1
    /\ json_str' = <<>>
    /\ parsed_result' = NoDict
    /\ content_json' = NoDict
    /\ score' = PyInt(0)
    /\ result' = NoResult
    /\ e' = NoExc
    /\ logged' = <<>>
    /\ parse_calls' = 0
    /\ UNCHANGED raised

Call(o, tp) ==
    /\ stage \in {"Idle", "Done", "Failed"}
    /\ ~raised
    /\ Enter(o, tp)
    /\ prev' = NoPrev
    /\ revals' = 0

\* the caller runs run_fact_check again, and the model's reply will be the
\* JSON text of the verification record just returned
Revalidate ==
    /\ stage = "Done"
    /\ op = "run_fact_check"
    /\ revals < MaxReval
    /\ Enter("run_fact_check", topic)
    /\ prev' = [ok |-> TRUE, score |-> result.score, details |-> result.details]
    /\ revals' = revals + 1

\* building the agents, tasks and crew, or crew.kickoff(), raises
KickoffRaises ==
    /\ stage = "Called"
    /\ \E ex \in KickoffErrors : Raise(op, topic, ex, FALSE)
    /\ UNCHANGED <<op, topic, req, text, start_idx, end_idx, json_str,
                   parsed_result, content_json, score, parse_calls, prev, revals>>

\* crew.kickoff() returns: result_str = str(result).strip(), or, in
\* generate_factual_content, str(writing_task.output) as it is
Kickoff ==
    /\ stage = "Called"
    /\ \E reply \in (IF prev.ok THEN {Serialize(prev)} ELSE Replies) :
          text' = IF op = "generate_factual_content" THEN reply ELSE Strip(reply)
    /\ stage' = "Fetched"
    /\ req' = 1
    /\ UNCHANGED <<op, topic, start_idx, end_idx, json_str, parsed_result,
                   content_json, score, result, e, raised, logged, parse_calls,
                   prev, revals>>

NotFoundBoth(s, t) == s = -1 /\ t = -1

\* if start_idx == -1 or end_idx == -1 (lines 50, 245, 323)
NotFound(s, t) == s = -1 \/ t = -1

\* what generate_factual_content raises when _extract_json returned None
ExtractFailed(r) ==
    Exc("ValueError",
        IF r = 1 THEN "Failed to parse content generation output"
        ELSE "Failed to parse verification output")

\* find('{'), rfind('}'), the test for -1, and the slice
Locate ==
    /\ stage = "Fetched"
    /\ start_idx' = Find(text, "{")
    /\ end_idx' = RFind(text, "}")
    /\ IF NotFound(start_idx', end_idx')
       THEN /\ json_str' = json_str
            /\ CASE op = "run_fact_check" ->
                      /\ stage' = "Failed"
                      /\ result' = NoJsonRecord
                      /\ logged' = <<"No JSON object found in response">>
                      /\ UNCHANGED <<e, raised>>
                 [] op = "generate_content" ->
                      Raise(op, topic,
                            Exc("ValueError", "No JSON object found in response"),
                            FALSE)
                 [] OTHER ->
                      Raise(op, topic, ExtractFailed(req), FALSE)
       ELSE /\ json_str' = Slice(text, start_idx', end_idx' + 1)
            /\ stage' = "Located"
            /\ UNCHANGED <<result, e, raised, logged>>
    /\ UNCHANGED <<op, topic, req, text, parsed_result, content_json, score,
                   parse_calls, prev, revals>>

\* the json.JSONDecodeError json.loads raises on s
DecodeError(s) ==
    Exc("JSONDecodeError",
        IF s = <<>> THEN "Expecting value: line 1 column 1 (char 0)"
        ELSE "invalid JSON")

\* json.loads(json_str)
Parse ==
    /\ stage = "Located"
    /\ parse_calls' = parse_calls + 1
    /\ IF IsJsonObject(json_str)
       THEN /\ parsed_result' = Dict(JsonDict(json_str))
            /\ stage' = "Parsed"
            /\ UNCHANGED <<result, e, raised, logged>>
       ELSE /\ parsed_result' = parsed_result
            /\ IF op = "generate_factual_content"
               THEN Raise(op, topic, ExtractFailed(req), FALSE)
               ELSE Raise(op, topic, DecodeError(json_str), TRUE)
    /\ UNCHANGED <<op, topic, req, text, start_idx, end_idx, json_str,
                   content_json, score, prev, revals>>

MissingBoth(d) == ~Has(d, "score") /\ ~Has(d, "details")

\* if "score" not in parsed_result or "details" not in parsed_result (line 260)
MissingRequired(d) == ~Has(d, "score") \/ ~Has(d, "details")

\* the checks on the parsed object, and in run_fact_check the score's
\* conversion and clamp (lines 260-264, 329-330, 152-153, 156-157)
Validate ==
    /\ stage = "Parsed"
    /\ LET d == parsed_result.d
       IN  CASE op = "run_fact_check" ->
                  LET sub == Subscript(d, "score")
                      f == Float(sub.v)
                  IN  IF MissingRequired(d)
                      THEN /\ Raise(op, topic,
                                    Exc("ValueError", "Missing required fields in response"),
                                    TRUE)
                           /\ UNCHANGED <<score, content_json>>
                      ELSE IF sub.exc # NoExc
                      THEN /\ Raise(op, topic, sub.exc, TRUE)
                           /\ UNCHANGED <<score, content_json>>
                      ELSE IF f.exc # NoExc
                      THEN /\ Raise(op, topic, f.exc, TRUE)
                           /\ UNCHANGED <<score, content_json>>
                      ELSE /\ score' = Clamp(f.n)
                           /\ stage' = "Validated"
                           /\ UNCHANGED <<result, e, raised, logged, content_json>>
             [] op = "generate_content" ->
                  IF ~Has(d, "content")
                  THEN /\ Raise(op, topic,
                                Exc("ValueError", "Missing 'content' field in response"),
                                FALSE)
                       /\ UNCHANGED <<score, content_json>>
                  ELSE /\ stage' = "Validated"
                       /\ UNCHANGED <<result, e, raised, logged, score, content_json>>
             [] OTHER ->
                  IF DOMAIN d = {}
                  THEN /\ Raise(op, topic, ExtractFailed(req), FALSE)
                       /\ UNCHANGED <<score, content_json>>
                  ELSE /\ stage' = "Validated"
                       /\ content_json' = IF req = 1 THEN parsed_result ELSE content_json
                       /\ UNCHANGED <<result, e, raised, logged, score>>
    /\ UNCHANGED <<op, topic, req, text, start_idx, end_idx, json_str,
                   parsed_result, parse_calls, prev, revals>>

\* generate_factual_content goes on to its second extraction:
\* _extract_json(str(fact_check_task.output))
NextTask ==
    /\ stage = "Validated"
    /\ op = "generate_factual_content"
    /\ req = 1
    /\ \E reply \in Replies : text' = reply
    /\ req' = 2
    /\ stage' = "Fetched"
    /\ start_idx' = -1
    /\ end_idx' = -1
    /\ json_str' = <<>>
    /\ parsed_result' = NoDict
    /\ parse_calls' = 0
    /\ UNCHANGED <<op, topic, content_json, score, result, e, raised, logged,
                   prev, revals>>

\* the operation builds and returns its record
Return ==
    /\ stage = "Validated"
    /\ CASE op = "run_fact_check" ->
              LET sub == Subscript(parsed_result.d, "details")
              IN  IF sub.exc # NoExc
                  THEN Raise(op, topic, sub.exc, TRUE)
                  ELSE /\ result' = VerificationRecord(score, sub.v.s)
                       /\ stage' = "Done"
                       /\ UNCHANGED <<e, raised, logged>>
         [] op = "generate_content" ->
              LET sub == Subscript(parsed_result.d, "content")
              IN  IF sub.exc # NoExc
                  THEN Raise(op, topic, sub.exc, FALSE)
                  ELSE IF sub.v.ty # "str"
                  THEN Raise(op, topic,
                             Exc("AttributeError", "object has no attribute 'split'"),
                             FALSE)
                  ELSE /\ result' = ContentRecord(sub.v, topic)
                       /\ stage' = "Done"
                       /\ UNCHANGED <<e, raised, logged>>
         [] OTHER ->
              /\ req = 2
              /\ LET sub == Subscript(content_json.d, "content")
                 IN  IF sub.exc # NoExc
                     THEN Raise(op, topic, Exc("KeyError", "'content'"), FALSE)
                     ELSE /\ result' = FactualRecord(content_json.d, parsed_result.d, topic)
                          /\ stage' = "Done"
                          /\ UNCHANGED <<e, raised, logged>>
    /\ UNCHANGED <<op, topic, req, text, start_idx, end_idx, json_str,
                   parsed_result, content_json, score, parse_calls, prev, revals>>

Next ==
    \/ \E o \in Ops, tp \in Topics : Call(o, tp)
    \/ Revalidate
    \/ KickoffRaises
    \/ Kickoff
    \/ Locate
    \/ Parse
    \/ Validate
    \/ NextTask
    \/ Return

Spec == Init /\ [][Next]_vars

TypeOK ==
    /\ op \in Ops
    /\ stage \in {"Idle", "Called", "Fetched", "Located", "Parsed",
                  "Validated", "Done", "Failed"}
    /\ req \in 0..2
    /\ revals \in 0..MaxReval

\* ------------------------------------------------------------ claims

Terminal == stage \in {"Done", "Failed"}

\* C1: every operation ends by returning a record of its own shape, whatever
\* the reply was and also when the model call raised; no exception leaves it.
C1_AlwaysReturnsRecord ==
    /\ ~raised
    /\ Terminal =>
         CASE op = "run_fact_check" -> DOMAIN result = {"score", "details"}
           [] op = "generate_content" -> DOMAIN result = {"content", "metadata"}
           [] OTHER -> {"status", "metadata"} \subseteq DOMAIN result

\* a non-numeric score (null) made float() raise TypeError, and
\* run_fact_check still returned a record
C1_Witness ==
    /\ stage = "Failed"
    /\ op = "run_fact_check"
    /\ e.type = "TypeError"
    /\ ~raised
    /\ DOMAIN result = {"score", "details"}

\* C2: the details of a successful verification record begin with
\* "Veracity Score: " and then the text of the score the record returns.
C2_DetailsRestateScore ==
    (stage = "Done" /\ op = "run_fact_check") =>
        StartsWith(result.details, <<"Veracity Score: ">> \o FormatNum(result.score))

\* the reply's details already began "Veracity Score: 7" and its score was 42.5
C2_Witness ==
    /\ stage = "Done"
    /\ op = "run_fact_check"
    /\ StartsWith(parsed_result.d["details"].s, <<"Veracity Score: ", "7">>)
    /\ result.score = PyFloat(425)

\* the score the specification asks for: saturated into [0, 100]
Saturated(n, s) ==
    IF Less(s, PyInt(0)) THEN NumEq(n, PyInt(0))
    ELSE IF Less(PyInt(100), s) THEN NumEq(n, PyInt(100))
    ELSE NumEq(n, s)

\* C3: every numeric score of the parsed reply is returned saturated into
\* [0, 100], and never makes run_fact_check fail.
C3_NumericScoreSaturates ==
    ( /\ op = "run_fact_check"
      /\ Terminal
      /\ parsed_result.ok
      /\ Has(parsed_result.d, "score")
      /\ Has(parsed_result.d, "details")
      /\ parsed_result.d["score"].ty = "num" )
    => /\ stage = "Done"
       /\ Saturated(result.score, parsed_result.d["score"].n)

\* C4: a parsed object without score or details makes run_fact_check return
\* the failure that names the missing fields; one without content does the
\* same in generate_content.
C4_MissingFieldFails ==
    /\ ( /\ op = "run_fact_check"
         /\ stage \in {"Validated", "Done", "Failed"}
         /\ parsed_result.ok
         /\ ~(Has(parsed_result.d, "score") /\ Has(parsed_result.d, "details")) )
       => /\ stage = "Failed"
          /\ result.score = PyInt(0)
          /\ result.details =
               <<"Error during fact check: ", "Missing required fields in response">>
    /\ ( /\ op = "generate_content"
         /\ stage \in {"Validated", "Done", "Failed"}
         /\ parsed_result.ok
         /\ ~Has(parsed_result.d, "content") )
       => /\ stage = "Failed"
          /\ result.content =
               Str(<<"Error generating content: ", "Missing 'content' field in response">>)

\* the reply was {"foo": "bar"}
C4_Witness ==
    /\ op = "run_fact_check"
    /\ stage = "Failed"
    /\ parsed_result.ok
    /\ DOMAIN parsed_result.d = {"foo"}
    /\ e.msg = "Missing required fields in response"

\* the position (from 1) of the "}" that returns the nesting depth to 0,
\* scanning from position i at the given depth; 0 when there is none
RECURSIVE ScanClose(_, _, _)
ScanClose(t, i, depth) ==
    IF i > Len(t) THEN 0
    ELSE IF t[i].c = "{" THEN ScanClose(t, i + 1, depth + 1)
    ELSE IF t[i].c = "}" /\ depth = 1 THEN i
    ELSE IF t[i].c = "}" /\ depth > 1 THEN ScanClose(t, i + 1, depth - 1)
    ELSE ScanClose(t, i + 1, depth)

\* where the outermost balanced object of t ends; 0 when t has none
BalancedClose(t) ==
    IF Find(t, "{") = -1 THEN 0 ELSE ScanClose(t, Find(t, "{") + 1, 0)

\* C5: a text with no "{", or with no "}" matching its first "{", fails at
\* boundary location: no json.loads call is made.
C5_NoMatchIsNoJSONFound ==
    (req >= 1 /\ stage # "Fetched" /\ BalancedClose(text) = 0)
    => (stage = "Failed" /\ parse_calls = 0)

\* C6: when the text holds a balanced object, the candidate runs from the
\* first "{" to the "}" that returns the depth to 0.
C6_CandidateIsOutermostObject ==
    (stage = "Located" /\ BalancedClose(text) > 0)
    => json_str = SubSeq(text, Find(text, "{") + 1, BalancedClose(text))

\* one step of an extraction request
C7_Step ==
    /\ stage' = "Located" => stage = "Fetched"
    /\ stage' = "Parsed" => stage = "Located"
    /\ stage' = "Validated" => stage = "Parsed"
    /\ stage' = "Done" => stage = "Validated"
    /\ stage' = "Fetched" =>
         \/ stage = "Called"
         \/ stage = "Validated" /\ req' = req + 1
    /\ Terminal => (stage' = "Called" /\ req' = 0 /\ parse_calls' = 0)

\* C7: a request moves only forward through Fetched, Located, Parsed,
\* Validated, Done; json.loads runs only after both indices were found,
\* validation only on a parsed object; after Done or Failed nothing of the
\* request runs again.
C7_StagesMoveForward ==
    /\ [](parse_calls > 0 => (start_idx # -1 /\ end_idx # -1))
    /\ [](stage \in {"Located", "Parsed", "Validated"} =>
             (start_idx # -1 /\ end_idx # -1))
    /\ [](stage \in {"Parsed", "Validated"} => (parsed_result.ok /\ parse_calls = 1))
    /\ [][stage' # stage => C7_Step]_vars

\* the second request of generate_factual_content passed every stage
C7_Witness ==
    /\ stage = "Done"
    /\ op = "generate_factual_content"
    /\ req = 2
    /\ parse_calls = 1

\* C8: every failure is {status: FAILED, error, metadata: {topic, timestamp}}
\* and nothing else.
C8_FailureRecordShape ==
    (stage = "Failed" /\ ~raised) =>
        /\ DOMAIN result = {"status", "error", "metadata"}
        /\ result.status = "FAILED"
        /\ DOMAIN result.metadata = {"topic", "timestamp"}

\* C9: a verification record fed back through run_fact_check comes out with
\* the same score and the same details.
C9_RevalidationIdempotent ==
    (stage = "Done" /\ op = "run_fact_check" /\ prev.ok) =>
        /\ result.score = prev.score
        /\ result.details = prev.details

\* C10: without an upstream word_count, the returned word_count is the number
\* of whitespace-separated tokens of the returned content, in
\* generate_content and generate_factual_content alike.
C10_WordCountIsTokenCount ==
    /\ ( /\ stage = "Done"
         /\ op = "generate_content"
         /\ ~Has(parsed_result.d, "word_count") )
       => result.metadata.word_count = Num(PyInt(SplitCount(result.content.s)))
    /\ ( /\ stage = "Done"
         /\ op = "generate_factual_content"
         /\ ~Has(content_json.d, "word_count")
         /\ result.content.ty = "str" )
       => result.word_count = Num(PyInt(SplitCount(result.content.s)))

====
